---- MODULE Spec2Model ----
(***************************************************************************)
(* Model of ZakuroLoaderPkg/Main.c: the UEFI loader UefiMain and its       *)
(* helpers GetMemoryMap, SaveMemoryMap, OpenRootDir, OpenGOP,              *)
(* CalcLoadAddressRange, CopyLoadSegments and Halt.                        *)
(*                                                                         *)
(* The firmware (gBS, the file protocol, the console, the kernel that is   *)
(* jumped to) is the environment: each firmware call returns a status and  *)
(* outputs chosen nondeterministically, as a fake firmware would.          *)
(*                                                                         *)
(* Scaling.  UINT64 values are words modulo Top (the model's 2^64), a page *)
(* is PageSize bytes (the model's 0x1000) and the entry point is the word  *)
(* at offset ELF_OFFSET_TO_ENTRYPOINT of the image (the model's 24).  One  *)
(* memory cell of the model stands for one addressable unit.               *)
(***************************************************************************)
EXTENDS Integers, Sequences, FiniteSets, TLC

\* ---------------------------------------------------------------- bounds
Top == 16           \* number of UINT64 values: arithmetic is modulo Top
MaxPhnum == 2       \* largest e_phnum of a kernel image
MaxKey == 2         \* map keys the firmware hands out are 1..MaxKey
FileSize == 4       \* size of \kernel.elf in memory cells
BufCap == 2         \* descriptors that fit into memory_buf

\* ------------------------------------------------------ program constants
PageSize == 4                     \* 0x1000, scaled
ELF_OFFSET_TO_ENTRYPOINT == 1     \* 24, scaled
AttrMask == 1048575               \* 0xfffff
DescSize == 2                     \* stride of one EFI_MEMORY_DESCRIPTOR, scaled

MAX_UINT64 == Top - 1
NULL == "NULL"
PT_LOAD == "PT_LOAD"
EFI_SUCCESS == "EFI_SUCCESS"
EFI_BUFFER_TOO_SMALL == "EFI_BUFFER_TOO_SMALL"
EFI_INVALID_PARAMETER == "EFI_INVALID_PARAMETER"
EFI_ERROR(s) == s # EFI_SUCCESS

Addr == 0..(Top - 1)
MIN(a, b) == IF a < b THEN a ELSE b
MAX(a, b) == IF a > b THEN a ELSE b

\* ------------------------------------------------------------ ELF image
\* An image is its program header table (ehdr.phdr, e_phnum = Len) and the
\* cells of the file; cell k of the file holds k + 1, so that every cell of
\* the file differs from every other, from zero and from Garbage.
FileByte(k) == k + 1
Garbage == FileSize + 1
e_phnum(ehdr) == Len(ehdr.phdr)

Phdr(t, off, va, fsz, msz) ==
  [p_type |-> t, p_offset |-> off, p_vaddr |-> va, p_filesz |-> fsz, p_memsz |-> msz]

\* CalcLoadAddressRange, lines 164-173: the loop from entry i on, folding
\* into (first, last).
RECURSIVE CalcLoop(_, _, _, _)
CalcLoop(ehdr, i, first, last) ==
  IF i > e_phnum(ehdr) THEN [first |-> first, last |-> last]
  ELSE LET ph == ehdr.phdr[i] IN
       IF ph.p_type # PT_LOAD THEN CalcLoop(ehdr, i + 1, first, last)
       ELSE CalcLoop(ehdr, i + 1, MIN(first, ph.p_vaddr),
                     MAX(last, (ph.p_vaddr + ph.p_memsz) % Top))

\* CalcLoadAddressRange without the test of line 169: every entry is folded in.
RECURSIVE CalcLoopAnyType(_, _, _, _)
CalcLoopAnyType(ehdr, i, first, last) ==
  IF i > e_phnum(ehdr) THEN [first |-> first, last |-> last]
  ELSE LET ph == ehdr.phdr[i] IN
       CalcLoopAnyType(ehdr, i + 1, MIN(first, ph.p_vaddr),
                       MAX(last, (ph.p_vaddr + ph.p_memsz) % Top))
CalcLoadAddressRangeAnyType(ehdr) == CalcLoopAnyType(ehdr, 1, MAX_UINT64, 0)

CalcLoadAddressRange(ehdr) == CalcLoop(ehdr, 1, MAX_UINT64, 0)

\* CopyMem (BaseMemoryLib), called at line 182: memmove of len cells.  A
\* range that runs past the top of the address space trips the library's
\* ASSERT (asserts = TRUE: nothing is written) or faults after the cells
\* below the top were written (asserts = FALSE).
CopyMem(m, dst, src, len, asserts) ==
  LET bad == len > 0 /\ (dst + len > Top \/ src + len > Top) IN
  IF bad /\ asserts THEN [mem |-> m, fault |-> TRUE]
  ELSE [mem |-> [a \in Addr |->
                   IF a >= dst /\ a < dst + len /\ src + (a - dst) < Top
                   THEN m[src + (a - dst)] ELSE m[a]],
        fault |-> bad]

\* SetMem (BaseMemoryLib), called at line 185.
SetMem(m, buf, len, val, asserts) ==
  LET bad == len > 0 /\ buf + len > Top IN
  IF bad /\ asserts THEN [mem |-> m, fault |-> TRUE]
  ELSE [mem |-> [a \in Addr |-> IF a >= buf /\ a < buf + len THEN val ELSE m[a]],
        fault |-> bad]

\* CopyLoadSegments, lines 176-187: the loop from entry i on.  base is the
\* address of the file buffer (ehdr), st the memory so far.
RECURSIVE CopyLoop(_, _, _, _, _)
CopyLoop(ehdr, base, i, st, asserts) ==
  IF i > e_phnum(ehdr) \/ st.fault THEN st
  ELSE LET ph == ehdr.phdr[i] IN
       IF ph.p_type # PT_LOAD THEN CopyLoop(ehdr, base, i + 1, st, asserts)
       ELSE LET segm_in_file == (base + ph.p_offset) % Top
                s1 == CopyMem(st.mem, ph.p_vaddr, segm_in_file, ph.p_filesz, asserts)
                remain_bytes == (ph.p_memsz - ph.p_filesz) % Top
                s2 == IF s1.fault THEN s1
                      ELSE SetMem(s1.mem, (ph.p_vaddr + ph.p_filesz) % Top,
                                  remain_bytes, 0, asserts)
            IN CopyLoop(ehdr, base, i + 1, s2, asserts)

\* CopyLoadSegments without the SetMem of lines 184-185.
RECURSIVE CopyLoopNoFill(_, _, _, _, _)
CopyLoopNoFill(ehdr, base, i, st, asserts) ==
  IF i > e_phnum(ehdr) \/ st.fault THEN st
  ELSE LET ph == ehdr.phdr[i] IN
       IF ph.p_type # PT_LOAD THEN CopyLoopNoFill(ehdr, base, i + 1, st, asserts)
       ELSE CopyLoopNoFill(ehdr, base, i + 1,
                           CopyMem(st.mem, ph.p_vaddr, (base + ph.p_offset) % Top,
                                   ph.p_filesz, asserts), asserts)
CopyLoadSegmentsNoFill(ehdr, base, m, asserts) ==
  CopyLoopNoFill(ehdr, base, 1, [mem |-> m, fault |-> FALSE], asserts)

CopyLoadSegments(ehdr, base, m, asserts) ==
  CopyLoop(ehdr, base, 1, [mem |-> m, fault |-> FALSE], asserts)


\* ------------------------------------------------------------- the state
VARIABLES
  pc,                 \* position of UefiMain
  trace,              \* history: firmware calls and control transfers so far
  memmap,             \* struct MemoryMap memmap (buffer is memory_buf)
  memory_buf,         \* descriptors initialised in CHAR8 memory_buf[4096 * 4]
  report,             \* lines written to \memmap
  gop,                \* gop->Mode as the loader reads it
  kern_setup_status,
  status,
  kernel_file_size,
  kernel_buffer,      \* address of the pool buffer holding the file
  kernel_ehdr,        \* the image read into kernel_buffer
  mem,                \* physical memory
  kernel_first_addr,
  kernel_last_addr,
  num_pages,
  config,             \* struct FrameBufferConfig
  system_table,      \* system_table->ConfigurationTable, once it has been read
  acpi_table,
  entry_addr

vars == <<pc, trace, memmap, memory_buf, report, gop, kern_setup_status, status,
          kernel_file_size, kernel_buffer, kernel_ehdr, mem, kernel_first_addr,
          kernel_last_addr, num_pages, config, system_table, acpi_table, entry_addr>>

\* An event of the history: a firmware service call (with its status and,
\* for GetMemoryMap and ExitBootServices, the map key returned or passed),
\* or a control transfer (KernelEntry, KernelReturn, Halt, Fault), or a read
\* of firmware data (ReadGopMode for gop->Mode, ReadConfigTable for the
\* configuration tables of the system table; ReadEntry, with the address
\* read, for the entry address), or the return of a function of the loader
\* (CalcLoadAddressRange, CopyLoadSegments).
Ev(op, ok, key) == [op |-> op, ok |-> ok, key |-> key]
Call(op) == Ev(op, TRUE, 0)
FwOps == {"Print", "GetMemoryMap", "OpenProtocol", "OpenVolume", "Open", "Write",
          "Close", "LocateHandleBuffer", "FreePool", "GetInfo", "AllocatePool",
          "Read", "AllocatePages", "ExitBootServices"}

\* Halt, lines 28-30: the processor stays in the hlt loop for ever.
Halt(tr) == Append(tr, Call("Halt"))

\* ------------------------------------------------------ reading the history
Events(op) == {i \in DOMAIN trace : trace[i].op = op}
Exits == Events("ExitBootServices")
Captures == Events("GetMemoryMap")
Entries == Events("KernelEntry")
AcceptedExits == {i \in Exits : trace[i].ok}
RejectedExits == {i \in Exits : ~trace[i].ok}
\* the last capture before event i (0 when there is none)
LastCaptureBefore(i) ==
  LET before == {j \in Captures : j < i} IN
  IF before = {} THEN 0 ELSE CHOOSE j \in before : \A k \in before : k <= j
Loadable(ehdr) == {i \in DOMAIN ehdr.phdr : ehdr.phdr[i].p_type = PT_LOAD}

\* ----------------------------------------------------------- memory map
\* The firmware's descriptors: descriptor k of the map, with attribute bits
\* above and below the 20-bit mask.
Desc(k) == [Type |-> k, PhysicalStart |-> k * PageSize, NumberOfPages |-> k,
            Attribute |-> k * (AttrMask + 1) + k]
FwMemoryMaps == {[i \in 1..n |-> Desc(i)] : n \in 0..BufCap}
GarbageDescs == {Desc(0), Desc(17)}

\* gBS->GetMemoryMap, called at lines 39-41 with map.map_size = buffer_size:
\* the outcomes of the firmware call.  On success the map, its key and the
\* stride are written; EFI_BUFFER_TOO_SMALL writes the size needed, the key
\* and the stride but no descriptor; EFI_INVALID_PARAMETER writes nothing.
FwGetMemoryMap(map, buf) ==
  {[status |-> EFI_SUCCESS,
    map |-> [map EXCEPT !.map_size = Len(d) * DescSize, !.map_key = k,
                        !.descriptor_size = DescSize, !.descriptor_version = 1],
    buf |-> d] : d \in {x \in FwMemoryMaps : Len(x) * DescSize <= map.map_size},
                 k \in 1..MaxKey}
  \cup
  {[status |-> EFI_BUFFER_TOO_SMALL,
    map |-> [map EXCEPT !.map_size = map.buffer_size + DescSize, !.map_key = k,
                        !.descriptor_size = DescSize, !.descriptor_version = 1],
    buf |-> buf] : k \in 1..MaxKey}
  \cup
  {[status |-> EFI_INVALID_PARAMETER, map |-> map, buf |-> buf]}

\* GetMemoryMap without the test of line 34.
GetMemoryMapNoNullCheck(map, buf) ==
  {[status |-> o.status, map |-> o.map, buf |-> o.buf, called |-> TRUE] :
     o \in FwGetMemoryMap([map EXCEPT !.map_size = map.buffer_size], buf)}

\* GetMemoryMap, lines 33-42: the outcomes [status, map, buf, called], called
\* telling whether the firmware was called.
GetMemoryMap(map, buf) ==
  IF map.buffer = NULL
  THEN {[status |-> EFI_BUFFER_TOO_SMALL, map |-> map, buf |-> buf, called |-> FALSE]}
  ELSE {[status |-> o.status, map |-> o.map, buf |-> o.buf, called |-> TRUE] :
          o \in FwGetMemoryMap([map EXCEPT !.map_size = map.buffer_size], buf)}

\* GetMemoryTypeUnicode, lines 45-82.
MemoryTypeNames ==
  <<"EfiReservedMemoryType", "EfiLoaderCode", "EfiLoaderData", "EfiBootServicesCode",
    "EfiBootServicesData", "EfiRuntimeServicesCode", "EfiRuntimeServicesData",
    "EfiConventionalMemory", "EfiUnusableMemory", "EfiACPIReclaimMemory",
    "EfiACPIMemoryNVS", "EfiMemoryMappedIO", "EfiMemoryMappedIOPortSpace",
    "EfiPalCode", "EfiPersistentMemory", "EfiMaxMemoryType">>
GetMemoryTypeUnicode(type) ==
  IF type \in 0..15 THEN MemoryTypeNames[type + 1] ELSE "InvalidMemoryType"

\* SaveMemoryMap, lines 85-112.  The loop of lines 99-109 runs while
\* iter < map_size, stepping by descriptor_size: it does not end when
\* descriptor_size = 0 and map_size > 0.
SaveMemoryMapDiverges(map) == map.descriptor_size = 0 /\ map.map_size > 0
SaveMemoryMapCount(map) ==
  IF map.map_size = 0 THEN 0
  ELSE (map.map_size + map.descriptor_size - 1) \div map.descriptor_size
ReportHeader ==
  <<"Index", "Type", "Type(name)", "PhysicalStart", "NumberOfPages", "Attribute">>
\* The conversions of AsciiSPrint, line 102: the digits of n in a base, most
\* significant first, and the zero padding of %08lx.
RECURSIVE Digits(_, _)
Digits(n, base) ==
  IF n < base THEN <<n>> ELSE Append(Digits(n \div base, base), n % base)
PadZero(s, width) ==
  IF Len(s) >= width THEN s ELSE [i \in 1..(width - Len(s)) |-> 0] \o s
\* The row of lines 102-107, "%u, %x, %-ls, %08lx, %lx, %lx\n", as its fields.
ReportRowUnmasked(i, desc) ==
  <<Digits(i, 10), Digits(desc.Type, 16), GetMemoryTypeUnicode(desc.Type),
    PadZero(Digits(desc.PhysicalStart, 16), 8), Digits(desc.NumberOfPages, 16),
    Digits(desc.Attribute, 16)>>
ReportRow(i, desc) ==
  <<Digits(i, 10), Digits(desc.Type, 16), GetMemoryTypeUnicode(desc.Type),
    PadZero(Digits(desc.PhysicalStart, 16), 8), Digits(desc.NumberOfPages, 16),
    Digits(desc.Attribute % (AttrMask + 1), 16)>>
\* SaveMemoryMap writing the attribute without the mask of line 106.
SaveMemoryMapUnmasked(map, buf, g) ==
  <<ReportHeader>> \o
  [i \in 1..SaveMemoryMapCount(map) |->
     ReportRowUnmasked(i - 1, IF i <= Len(buf) THEN buf[i] ELSE g)]
\* The lines written: a descriptor beyond those the firmware initialised is
\* read from uninitialised stack, g.
SaveMemoryMap(map, buf, g) ==
  <<ReportHeader>> \o
  [i \in 1..SaveMemoryMapCount(map) |->
     ReportRow(i - 1, IF i <= Len(buf) THEN buf[i] ELSE g)]

\* ------------------------------------------------------------ environment
\* The display modes the graphics device may report.
GopModes ==
  {[FrameBufferBase |-> b, PixelsPerScanLine |-> b + 2, HorizontalResolution |-> b + 1,
    VerticalResolution |-> b, PixelFormat |-> f] :
     b \in {3},
     f \in {"PixelRedGreenBlueReserved8BitPerColor",
            "PixelBlueGreenRedReserved8BitPerColor", "PixelBitMask", "PixelBltOnly"}}
NoMode == [FrameBufferBase |-> 0, PixelsPerScanLine |-> 0, HorizontalResolution |-> 0,
           VerticalResolution |-> 0, PixelFormat |-> "unread"]
NoConfig == [frame_buffer |-> 0, pixels_per_scan_line |-> 0, horizontal_resolution |-> 0,
             vertical_resolution |-> 0, pixel_format |-> "unset"]

\* The configuration tables of the system table.
CfgEntry(g, t) == [VendorGuid |-> g, VendorTable |-> t]
ConfigTables ==
  {<<>>, <<CfgEntry("smbios", "t1")>>, <<CfgEntry("acpi", "t1")>>,
   <<CfgEntry("smbios", "t1"), CfgEntry("acpi", "t2"), CfgEntry("acpi", "t3")>>}

\* Where AllocatePool may place the file buffer.
KernelBufferAddrs == {2 * PageSize}

\* The program headers of the kernel images \kernel.elf may hold.
KernelPhdrs ==
  {Phdr(PT_LOAD, 0, 0, 2, 3),             \* holds the ELF header, with zero fill
   Phdr(PT_LOAD, 2, PageSize + 1, 1, 2),  \* a second segment, not page aligned
   Phdr(PT_LOAD, 0, Top - 1, 1, 2),       \* p_vaddr + p_memsz wraps
   Phdr("PT_NOTE", 0, Top - 2, 1, 1)}     \* not loadable
RECURSIVE SeqsUpTo(_, _)
SeqsUpTo(S, n) ==
  IF n = 0 THEN {<<>>}
  ELSE LET shorter == SeqsUpTo(S, n - 1) IN
       shorter \cup {Append(q, x) : q \in {r \in shorter : Len(r) = n - 1}, x \in S}
KernelImages == {[phdr |-> q] : q \in SeqsUpTo(KernelPhdrs, MaxPhnum)}

\* ------------------------------------------------------------------ Init
\* The state at the entry of UefiMain, with memmap as lines 195-202 set it.
Init ==
  /\ pc = "start"
  /\ trace = <<>>
  /\ memmap = [buffer_size |-> BufCap * DescSize, buffer |-> "memory_buf", map_size |-> 0,
               map_key |-> 0, descriptor_size |-> 0, descriptor_version |-> 0]
  /\ memory_buf = <<>>
  /\ report = <<>>
  /\ gop = NoMode
  /\ kern_setup_status = EFI_SUCCESS
  /\ status = EFI_SUCCESS
  /\ kernel_file_size = 0
  /\ kernel_buffer = 0
  /\ kernel_ehdr = [phdr |-> <<>>]
  /\ mem = [a \in Addr |-> Garbage]
  /\ kernel_first_addr = 0
  /\ kernel_last_addr = 0
  /\ num_pages = 0
  /\ config = NoConfig
  /\ system_table = <<>>
  /\ acpi_table = NULL
  /\ entry_addr = 0

\* --------------------------------------------------- UefiMain, step by step
\* line 191
PrintHello ==
  /\ pc = "start"
  /\ pc' = "getmap"
  /\ trace' = Append(trace, Call("Print"))
  /\ UNCHANGED <<memmap, memory_buf, report, gop, kern_setup_status, status,
                 kernel_file_size, kernel_buffer, kernel_ehdr, mem, kernel_first_addr,
                 kernel_last_addr, num_pages, config, system_table, acpi_table, entry_addr>>

\* line 203: the status of the first capture is not looked at.
InitialGetMemoryMap ==
  /\ pc = "getmap"
  /\ \E o \in GetMemoryMap(memmap, memory_buf) :
       /\ memmap' = o.map
       /\ memory_buf' = o.buf
       /\ trace' = IF o.called
                   THEN Append(trace, Ev("GetMemoryMap", ~EFI_ERROR(o.status), o.map.map_key))
                   ELSE trace
  /\ pc' = "openroot"
  /\ UNCHANGED <<report, gop, kern_setup_status, status,
                 kernel_file_size, kernel_buffer, kernel_ehdr, mem, kernel_first_addr,
                 kernel_last_addr, num_pages, config, system_table, acpi_table, entry_addr>>

\* line 206 and OpenRootDir, lines 114-127
OpenRootDir ==
  /\ pc = "openroot"
  /\ pc' = "openmemmap"
  /\ trace' = trace \o <<Call("OpenProtocol"), Call("OpenProtocol"), Call("OpenVolume")>>
  /\ UNCHANGED <<memmap, memory_buf, report, gop, kern_setup_status, status,
                 kernel_file_size, kernel_buffer, kernel_ehdr, mem, kernel_first_addr,
                 kernel_last_addr, num_pages, config, system_table, acpi_table, entry_addr>>

\* lines 208-211
OpenMemmapFile ==
  /\ pc = "openmemmap"
  /\ pc' = "savemap"
  /\ trace' = Append(trace, Call("Open"))
  /\ UNCHANGED <<memmap, memory_buf, report, gop, kern_setup_status, status,
                 kernel_file_size, kernel_buffer, kernel_ehdr, mem, kernel_first_addr,
                 kernel_last_addr, num_pages, config, system_table, acpi_table, entry_addr>>

\* line 213 and SaveMemoryMap: one Write for the header, the Print of line 94,
\* one Write for each row.
SaveMap ==
  /\ pc = "savemap"
  /\ IF SaveMemoryMapDiverges(memmap)
     THEN /\ pc' = "save_loop"
          /\ report' = <<ReportHeader>>
          /\ trace' = trace \o <<Call("Write"), Call("Print")>>
     ELSE /\ pc' = "closemap"
          /\ \E g \in GarbageDescs : report' = SaveMemoryMap(memmap, memory_buf, g)
          /\ trace' = trace \o <<Call("Write"), Call("Print")>>
                        \o [i \in 1..SaveMemoryMapCount(memmap) |-> Call("Write")]
  /\ UNCHANGED <<memmap, memory_buf, gop, kern_setup_status, status,
                 kernel_file_size, kernel_buffer, kernel_ehdr, mem, kernel_first_addr,
                 kernel_last_addr, num_pages, config, system_table, acpi_table, entry_addr>>

\* lines 214-216
CloseMemmapFile ==
  /\ pc = "closemap"
  /\ pc' = "opengop"
  /\ trace' = trace \o <<Call("Close"), Call("Print")>>
  /\ UNCHANGED <<memmap, memory_buf, report, gop, kern_setup_status, status,
                 kernel_file_size, kernel_buffer, kernel_ehdr, mem, kernel_first_addr,
                 kernel_last_addr, num_pages, config, system_table, acpi_table, entry_addr>>

\* lines 219-229 and OpenGOP, lines 130-144: the mode is read for the two
\* Prints.
OpenGOP ==
  /\ pc = "opengop"
  /\ pc' = "openkernel"
  /\ gop' \in GopModes
  /\ trace' = trace \o <<Call("LocateHandleBuffer"), Call("OpenProtocol"),
                         Call("FreePool"), Call("ReadGopMode"), Call("Print"),
                         Call("Print")>>
  /\ UNCHANGED <<memmap, memory_buf, report, kern_setup_status, status,
                 kernel_file_size, kernel_buffer, kernel_ehdr, mem, kernel_first_addr,
                 kernel_last_addr, num_pages, config, system_table, acpi_table, entry_addr>>

\* lines 231-238
OpenKernelFile ==
  /\ pc = "openkernel"
  /\ \E st \in {EFI_SUCCESS, "EFI_NOT_FOUND"} :
       /\ kern_setup_status' = st
       /\ IF EFI_ERROR(st)
          THEN /\ pc' = "halt"
               /\ trace' = Halt(trace \o <<Ev("Open", FALSE, 0), Call("Print")>>)
          ELSE /\ pc' = "getinfo"
               /\ trace' = Append(trace, Call("Open"))
  /\ UNCHANGED <<memmap, memory_buf, report, gop, status,
                 kernel_file_size, kernel_buffer, kernel_ehdr, mem, kernel_first_addr,
                 kernel_last_addr, num_pages, config, system_table, acpi_table, entry_addr>>

\* lines 240-248
GetFileInfo ==
  /\ pc = "getinfo"
  /\ pc' = "allocpool"
  /\ kernel_file_size' = FileSize
  /\ trace' = Append(trace, Call("GetInfo"))
  /\ UNCHANGED <<memmap, memory_buf, report, gop, kern_setup_status, status,
                 kernel_buffer, kernel_ehdr, mem, kernel_first_addr,
                 kernel_last_addr, num_pages, config, system_table, acpi_table, entry_addr>>

\* lines 250-257
AllocPool ==
  /\ pc = "allocpool"
  /\ \E st \in {EFI_SUCCESS, "EFI_OUT_OF_RESOURCES"} :
       /\ kern_setup_status' = st
       /\ IF EFI_ERROR(st)
          THEN /\ pc' = "halt"
               /\ trace' = Halt(trace \o <<Ev("AllocatePool", FALSE, 0), Call("Print")>>)
               /\ UNCHANGED kernel_buffer
          ELSE /\ pc' = "readkernel"
               /\ trace' = Append(trace, Call("AllocatePool"))
               /\ kernel_buffer' \in KernelBufferAddrs
  /\ UNCHANGED <<memmap, memory_buf, report, gop, status,
                 kernel_file_size, kernel_ehdr, mem, kernel_first_addr,
                 kernel_last_addr, num_pages, config, system_table, acpi_table, entry_addr>>

\* lines 258-263: the file, one of KernelImages, arrives in the buffer.
ReadKernel ==
  /\ pc = "readkernel"
  /\ \E st \in {EFI_SUCCESS, "EFI_DEVICE_ERROR"} :
       /\ kern_setup_status' = st
       /\ IF EFI_ERROR(st)
          THEN /\ pc' = "halt"
               /\ trace' = Halt(trace \o <<Ev("Read", FALSE, 0), Call("Print")>>)
               /\ UNCHANGED <<kernel_ehdr, mem>>
          ELSE /\ pc' = "calcrange"
               /\ trace' = Append(trace, Call("Read"))
               /\ kernel_ehdr' \in KernelImages
               /\ mem' = [a \in Addr |->
                            IF a >= kernel_buffer /\ a < kernel_buffer + kernel_file_size
                            THEN FileByte(a - kernel_buffer) ELSE mem[a]]
  /\ UNCHANGED <<memmap, memory_buf, report, gop, status,
                 kernel_file_size, kernel_buffer, kernel_first_addr,
                 kernel_last_addr, num_pages, config, system_table, acpi_table, entry_addr>>

\* lines 265-270
CalcRange ==
  /\ pc = "calcrange"
  /\ pc' = "allocpages"
  /\ trace' = Append(trace, Call("CalcLoadAddressRange"))
  /\ LET r == CalcLoadAddressRange(kernel_ehdr) IN
       /\ kernel_first_addr' = r.first
       /\ kernel_last_addr' = r.last
       /\ num_pages' = ((r.last - r.first + (PageSize - 1)) % Top) \div PageSize
  /\ UNCHANGED <<memmap, memory_buf, report, gop, kern_setup_status, status,
                 kernel_file_size, kernel_buffer, kernel_ehdr, mem,
                 config, system_table, acpi_table, entry_addr>>

\* AllocPages without the Halt of line 275.
AllocPagesNoHalt ==
  /\ pc = "allocpages"
  /\ pc' = "loadkernel"
  /\ \E st \in {EFI_SUCCESS, "EFI_NOT_FOUND"} :
       /\ kern_setup_status' = st
       /\ trace' = IF EFI_ERROR(st)
                   THEN trace \o <<Ev("AllocatePages", FALSE, 0), Call("Print")>>
                   ELSE Append(trace, Call("AllocatePages"))
  /\ UNCHANGED <<memmap, memory_buf, report, gop, status,
                 kernel_file_size, kernel_buffer, kernel_ehdr, mem, kernel_first_addr,
                 kernel_last_addr, num_pages, config, system_table, acpi_table, entry_addr>>

\* lines 271-276: AllocateAddress leaves kernel_first_addr as it is.
AllocPages ==
  /\ pc = "allocpages"
  /\ \E st \in {EFI_SUCCESS, "EFI_NOT_FOUND"} :
       /\ kern_setup_status' = st
       /\ IF EFI_ERROR(st)
          THEN /\ pc' = "halt"
               /\ trace' = Halt(trace \o <<Ev("AllocatePages", FALSE, 0), Call("Print")>>)
          ELSE /\ pc' = "loadkernel"
               /\ trace' = Append(trace, Call("AllocatePages"))
  /\ UNCHANGED <<memmap, memory_buf, report, gop, status,
                 kernel_file_size, kernel_buffer, kernel_ehdr, mem, kernel_first_addr,
                 kernel_last_addr, num_pages, config, system_table, acpi_table, entry_addr>>

\* lines 278-280.  The program headers are taken as read before the copy
\* starts; a copy that faults stops the processor.
LoadKernel ==
  /\ pc = "loadkernel"
  /\ \E asserts \in BOOLEAN :
       LET r == CopyLoadSegments(kernel_ehdr, kernel_buffer, mem, asserts) IN
         /\ mem' = r.mem
         /\ IF r.fault
            THEN /\ pc' = "fault"
                 /\ trace' = Append(trace, Call("Fault"))
            ELSE /\ pc' = "freepool"
                 /\ trace' = trace \o <<Call("CopyLoadSegments"), Call("Print")>>
  /\ UNCHANGED <<memmap, memory_buf, report, gop, kern_setup_status, status,
                 kernel_file_size, kernel_buffer, kernel_ehdr, kernel_first_addr,
                 kernel_last_addr, num_pages, config, system_table, acpi_table, entry_addr>>

\* lines 282-286: the event carries the address of the buffer freed.
FreeKernelBuffer ==
  /\ pc = "freepool"
  /\ \E st \in {EFI_SUCCESS, EFI_INVALID_PARAMETER} :
       /\ kern_setup_status' = st
       /\ IF EFI_ERROR(st)
          THEN /\ pc' = "halt"
               /\ trace' = Halt(trace \o <<Ev("FreePool", FALSE, kernel_buffer),
                                           Call("Print")>>)
          ELSE /\ pc' = "exit1"
               /\ trace' = Append(trace, Ev("FreePool", TRUE, kernel_buffer))
  /\ UNCHANGED <<memmap, memory_buf, report, gop, status,
                 kernel_file_size, kernel_buffer, kernel_ehdr, mem, kernel_first_addr,
                 kernel_last_addr, num_pages, config, system_table, acpi_table, entry_addr>>

\* lines 288-290
FirstExit ==
  /\ pc = "exit1"
  /\ \E st \in {EFI_SUCCESS, EFI_INVALID_PARAMETER} :
       /\ status' = st
       /\ trace' = Append(trace, Ev("ExitBootServices", ~EFI_ERROR(st), memmap.map_key))
       /\ pc' = IF EFI_ERROR(st) THEN "recapture" ELSE "config"
  /\ UNCHANGED <<memmap, memory_buf, report, gop, kern_setup_status,
                 kernel_file_size, kernel_buffer, kernel_ehdr, mem, kernel_first_addr,
                 kernel_last_addr, num_pages, config, system_table, acpi_table, entry_addr>>

\* lines 291-297
Recapture ==
  /\ pc = "recapture"
  /\ \E o \in GetMemoryMap(memmap, memory_buf) :
       /\ memmap' = o.map
       /\ memory_buf' = o.buf
       /\ status' = o.status
       /\ LET tr == IF o.called
                    THEN Append(trace, Ev("GetMemoryMap", ~EFI_ERROR(o.status),
                                          o.map.map_key))
                    ELSE trace IN
          IF EFI_ERROR(o.status)
          THEN /\ pc' = "halt"
               /\ trace' = Halt(Append(tr, Call("Print")))
          ELSE /\ pc' = "exit2"
               /\ trace' = tr
  /\ UNCHANGED <<report, gop, kern_setup_status,
                 kernel_file_size, kernel_buffer, kernel_ehdr, mem, kernel_first_addr,
                 kernel_last_addr, num_pages, config, system_table, acpi_table, entry_addr>>

\* SecondExit passing the key of the first capture instead of memmap.map_key.
SecondExitStaleKey ==
  /\ pc = "exit2"
  /\ LET first_key == trace[CHOOSE j \in Captures : \A k \in Captures : j <= k].key IN
     \E st \in {EFI_SUCCESS, EFI_INVALID_PARAMETER} :
       /\ status' = st
       /\ IF EFI_ERROR(st)
          THEN /\ pc' = "halt"
               /\ trace' = Halt(trace \o <<Ev("ExitBootServices", FALSE, first_key),
                                           Call("Print")>>)
          ELSE /\ pc' = "config"
               /\ trace' = Append(trace, Ev("ExitBootServices", TRUE, first_key))
  /\ UNCHANGED <<memmap, memory_buf, report, gop, kern_setup_status,
                 kernel_file_size, kernel_buffer, kernel_ehdr, mem, kernel_first_addr,
                 kernel_last_addr, num_pages, config, system_table, acpi_table, entry_addr>>

\* SecondExit going back to the re-capture when it is rejected.
SecondExitRetriesAgain ==
  /\ pc = "exit2"
  /\ \E st \in {EFI_SUCCESS, EFI_INVALID_PARAMETER} :
       /\ status' = st
       /\ trace' = Append(trace, Ev("ExitBootServices", ~EFI_ERROR(st), memmap.map_key))
       /\ pc' = IF EFI_ERROR(st) THEN "recapture" ELSE "config"
  /\ UNCHANGED <<memmap, memory_buf, report, gop, kern_setup_status,
                 kernel_file_size, kernel_buffer, kernel_ehdr, mem, kernel_first_addr,
                 kernel_last_addr, num_pages, config, system_table, acpi_table, entry_addr>>

\* SecondExit followed by a FreePool once the call has succeeded.
SecondExitThenFree ==
  /\ pc = "exit2"
  /\ \E st \in {EFI_SUCCESS, EFI_INVALID_PARAMETER} :
       /\ status' = st
       /\ IF EFI_ERROR(st)
          THEN /\ pc' = "halt"
               /\ trace' = Halt(trace \o <<Ev("ExitBootServices", FALSE, memmap.map_key),
                                           Call("Print")>>)
          ELSE /\ pc' = "config"
               /\ trace' = trace \o <<Ev("ExitBootServices", TRUE, memmap.map_key),
                                      Call("FreePool")>>
  /\ UNCHANGED <<memmap, memory_buf, report, gop, kern_setup_status,
                 kernel_file_size, kernel_buffer, kernel_ehdr, mem, kernel_first_addr,
                 kernel_last_addr, num_pages, config, system_table, acpi_table, entry_addr>>

\* SecondExit without the Halt of line 301.
SecondExitNoHalt ==
  /\ pc = "exit2"
  /\ \E st \in {EFI_SUCCESS, EFI_INVALID_PARAMETER} :
       /\ status' = st
       /\ pc' = "config"
       /\ trace' = IF EFI_ERROR(st)
                   THEN trace \o <<Ev("ExitBootServices", FALSE, memmap.map_key),
                                   Call("Print")>>
                   ELSE Append(trace, Ev("ExitBootServices", TRUE, memmap.map_key))
  /\ UNCHANGED <<memmap, memory_buf, report, gop, kern_setup_status,
                 kernel_file_size, kernel_buffer, kernel_ehdr, mem, kernel_first_addr,
                 kernel_last_addr, num_pages, config, system_table, acpi_table, entry_addr>>

\* lines 298-302
SecondExit ==
  /\ pc = "exit2"
  /\ \E st \in {EFI_SUCCESS, EFI_INVALID_PARAMETER} :
       /\ status' = st
       /\ IF EFI_ERROR(st)
          THEN /\ pc' = "halt"
               /\ trace' = Halt(trace \o <<Ev("ExitBootServices", FALSE, memmap.map_key),
                                           Call("Print")>>)
          ELSE /\ pc' = "config"
               /\ trace' = Append(trace, Ev("ExitBootServices", TRUE, memmap.map_key))
  /\ UNCHANGED <<memmap, memory_buf, report, gop, kern_setup_status,
                 kernel_file_size, kernel_buffer, kernel_ehdr, mem, kernel_first_addr,
                 kernel_last_addr, num_pages, config, system_table, acpi_table, entry_addr>>

\* The switch with a default case that takes the first tag.
PixelFormatTagNoDefault(fmt) ==
  CASE fmt = "PixelBlueGreenRedReserved8BitPerColor" -> "kPixelBGRResv8BitPerColor"
    [] OTHER -> "kPixelRGBResv8BitPerColor"

\* The switch of lines 310-320: the tag for a pixel format, "unsupported"
\* for the default case.
PixelFormatTag(fmt) ==
  CASE fmt = "PixelRedGreenBlueReserved8BitPerColor" -> "kPixelRGBResv8BitPerColor"
    [] fmt = "PixelBlueGreenRedReserved8BitPerColor" -> "kPixelBGRResv8BitPerColor"
    [] OTHER -> "unsupported"

\* lines 305-320
BuildConfig ==
  /\ pc = "config"
  /\ LET tag == PixelFormatTag(gop.PixelFormat)
         c == [frame_buffer |-> gop.FrameBufferBase,
               pixels_per_scan_line |-> gop.PixelsPerScanLine,
               horizontal_resolution |-> gop.HorizontalResolution,
               vertical_resolution |-> gop.VerticalResolution,
               pixel_format |-> "0"] IN
       IF tag = "unsupported"
       THEN /\ config' = c
            /\ pc' = "halt"
            /\ trace' = Halt(trace \o <<Call("ReadGopMode"), Call("Print")>>)
       ELSE /\ config' = [c EXCEPT !.pixel_format = tag]
            /\ pc' = "acpi"
            /\ trace' = Append(trace, Call("ReadGopMode"))
  /\ UNCHANGED <<memmap, memory_buf, report, gop, kern_setup_status, status,
                 kernel_file_size, kernel_buffer, kernel_ehdr, mem, kernel_first_addr,
                 kernel_last_addr, num_pages, system_table, acpi_table, entry_addr>>

\* The loop without the break of line 327: the last matching entry wins.
RECURSIVE AcpiLoopNoBreak(_, _)
AcpiLoopNoBreak(tables, i) ==
  IF i > Len(tables) THEN NULL
  ELSE LET rest == AcpiLoopNoBreak(tables, i + 1) IN
       IF tables[i].VendorGuid = "acpi" /\ rest = NULL
       THEN tables[i].VendorTable ELSE rest

\* The loop of lines 323-329 from entry i on.
RECURSIVE AcpiLoop(_, _)
AcpiLoop(tables, i) ==
  IF i > Len(tables) THEN NULL
  ELSE IF tables[i].VendorGuid = "acpi" THEN tables[i].VendorTable
  ELSE AcpiLoop(tables, i + 1)

\* lines 322-329: the configuration tables are read here for the first time.
FindAcpi ==
  /\ pc = "acpi"
  /\ pc' = "entry"
  /\ system_table' \in ConfigTables
  /\ acpi_table' = AcpiLoop(system_table', 1)
  /\ trace' = Append(trace, Call("ReadConfigTable"))
  /\ UNCHANGED <<memmap, memory_buf, report, gop, kern_setup_status, status,
                 kernel_file_size, kernel_buffer, kernel_ehdr, mem, kernel_first_addr,
                 kernel_last_addr, num_pages, config, entry_addr>>

\* CallEntry taking the entry address from the header in the file buffer.
CallEntryFromBuffer ==
  /\ pc = "entry"
  /\ pc' = "kernel"
  /\ entry_addr' = mem[(kernel_buffer + ELF_OFFSET_TO_ENTRYPOINT) % Top]
  /\ trace' = trace \o <<Ev("ReadEntry", TRUE,
                             (kernel_buffer + ELF_OFFSET_TO_ENTRYPOINT) % Top),
                          Ev("KernelEntry", TRUE, memmap.map_key)>>
  /\ UNCHANGED <<memmap, memory_buf, report, gop, kern_setup_status, status,
                 kernel_file_size, kernel_buffer, kernel_ehdr, mem, kernel_first_addr,
                 kernel_last_addr, num_pages, config, system_table, acpi_table>>

\* lines 331-335: the entry address is read (ReadEntry, with the address
\* read) and the kernel is called with the snapshot (KernelEntry, with its
\* key).
CallEntry ==
  /\ pc = "entry"
  /\ pc' = "kernel"
  /\ entry_addr' = mem[(kernel_first_addr + ELF_OFFSET_TO_ENTRYPOINT) % Top]
  /\ trace' = trace \o <<Ev("ReadEntry", TRUE,
                             (kernel_first_addr + ELF_OFFSET_TO_ENTRYPOINT) % Top),
                          Ev("KernelEntry", TRUE, memmap.map_key)>>
  /\ UNCHANGED <<memmap, memory_buf, report, gop, kern_setup_status, status,
                 kernel_file_size, kernel_buffer, kernel_ehdr, mem, kernel_first_addr,
                 kernel_last_addr, num_pages, config, system_table, acpi_table>>

\* The kernel may return from its entry point.
KernelReturns ==
  /\ pc = "kernel"
  /\ pc' = "returned"
  /\ trace' = Append(trace, Call("KernelReturn"))
  /\ UNCHANGED <<memmap, memory_buf, report, gop, kern_setup_status, status,
                 kernel_file_size, kernel_buffer, kernel_ehdr, mem, kernel_first_addr,
                 kernel_last_addr, num_pages, config, system_table, acpi_table, entry_addr>>

\* lines 337-340
PostReturn ==
  /\ pc = "returned"
  /\ pc' = "halt"
  /\ trace' = Halt(Append(trace, Call("Print")))
  /\ UNCHANGED <<memmap, memory_buf, report, gop, kern_setup_status, status,
                 kernel_file_size, kernel_buffer, kernel_ehdr, mem, kernel_first_addr,
                 kernel_last_addr, num_pages, config, system_table, acpi_table, entry_addr>>

\* UefiMain, lines 189-343
Next ==
  \/ PrintHello
  \/ InitialGetMemoryMap
  \/ OpenRootDir
  \/ OpenMemmapFile
  \/ SaveMap
  \/ CloseMemmapFile
  \/ OpenGOP
  \/ OpenKernelFile
  \/ GetFileInfo
  \/ AllocPool
  \/ ReadKernel
  \/ CalcRange
  \/ AllocPages
  \/ LoadKernel
  \/ FreeKernelBuffer
  \/ FirstExit
  \/ Recapture
  \/ SecondExit
  \/ BuildConfig
  \/ FindAcpi
  \/ CallEntry
  \/ KernelReturns
  \/ PostReturn

Spec == Init /\ [][Next]_vars

\* ------------------------------- UefiMain on a firmware that checks the key
\* The comment of lines 291-292: ExitBootServices fails if the memory map
\* has been changed.  The key passed is current when it is the key of the
\* last capture, that capture succeeded, and no AllocatePool, AllocatePages
\* or FreePool has succeeded since.
MutatingOps == {"AllocatePool", "AllocatePages", "FreePool"}
KeyCurrent ==
  LET c == LastCaptureBefore(Len(trace) + 1) IN
    /\ c # 0
    /\ trace[c].ok
    /\ memmap.map_key = trace[c].key
    /\ \A j \in DOMAIN trace : (j > c /\ trace[j].op \in MutatingOps) => ~trace[j].ok

\* lines 288-290 and 298-303, the firmware accepting a current key only.
FirstExitFw == FirstExit /\ (status' = EFI_SUCCESS => KeyCurrent)
SecondExitFw == SecondExit /\ (status' = EFI_SUCCESS => KeyCurrent)

NextFw ==
  \/ PrintHello
  \/ InitialGetMemoryMap
  \/ OpenRootDir
  \/ OpenMemmapFile
  \/ SaveMap
  \/ CloseMemmapFile
  \/ OpenGOP
  \/ OpenKernelFile
  \/ GetFileInfo
  \/ AllocPool
  \/ ReadKernel
  \/ CalcRange
  \/ AllocPages
  \/ LoadKernel
  \/ FreeKernelBuffer
  \/ FirstExitFw
  \/ Recapture
  \/ SecondExitFw
  \/ BuildConfig
  \/ FindAcpi
  \/ CallEntry
  \/ KernelReturns
  \/ PostReturn

SpecFw == Init /\ [][NextFw]_vars

\* ------------------------------------------- the ELF functions on their own
\* The program headers CalcLoadAddressRange and CopyLoadSegments are applied
\* to: loadable entries at the bottom of memory, inside the file buffer and at
\* the top of the address space, with and without zero fill, with p_filesz
\* above p_memsz and with p_offset at the end of the file.
ElfPhdrs ==
  {Phdr(PT_LOAD, off, va, sz[1], sz[2]) :
     off \in {0, FileSize - 1},
     va \in {0, 2, 2 * PageSize + 1, Top - 1},
     sz \in {<<1, 1>>, <<1, 2>>, <<2, 3>>, <<2, 1>>, <<1, 0>>, <<0, 1>>}}
  \cup {Phdr("PT_NOTE", 0, 0, 1, 1), Phdr("PT_DYNAMIC", 1, Top - 2, 1, 1)}
ElfImages == {[phdr |-> q] : q \in SeqsUpTo(ElfPhdrs, MaxPhnum)}

\* The state of UefiMain when line 265 is reached, the file of any image of
\* ElfImages being in the buffer.
InitElf ==
  /\ pc = "calcrange"
  /\ trace = <<>>
  /\ memmap = [buffer_size |-> BufCap * DescSize, buffer |-> "memory_buf", map_size |-> 0,
               map_key |-> 0, descriptor_size |-> 0, descriptor_version |-> 0]
  /\ memory_buf = <<>>
  /\ report = <<>>
  /\ gop = NoMode
  /\ kern_setup_status = EFI_SUCCESS
  /\ status = EFI_SUCCESS
  /\ kernel_file_size = FileSize
  /\ kernel_buffer \in KernelBufferAddrs
  /\ kernel_ehdr \in ElfImages
  /\ mem = [a \in Addr |->
              IF a >= kernel_buffer /\ a < kernel_buffer + kernel_file_size
              THEN FileByte(a - kernel_buffer) ELSE Garbage]
  /\ kernel_first_addr = 0
  /\ kernel_last_addr = 0
  /\ num_pages = 0
  /\ config = NoConfig
  /\ system_table = <<>>
  /\ acpi_table = NULL
  /\ entry_addr = 0

NextElf ==
  \/ CalcRange
  \/ AllocPages
  \/ LoadKernel

SpecElf == InitElf /\ [][NextElf]_vars

\* ------------------------------------------------- GetMemoryMap on its own
\* The snapshot records GetMemoryMap is applied to: with and without a
\* buffer, the buffer of any capacity up to BufCap descriptors, the other
\* fields zero or left by an earlier capture.
MapRecords ==
  {[buffer_size |-> bs, buffer |-> b, map_size |-> ms, map_key |-> k,
    descriptor_size |-> ds, descriptor_version |-> v] :
     bs \in {n * DescSize : n \in 0..BufCap}, b \in {NULL, "memory_buf"},
     ms \in {0, DescSize}, k \in 0..MaxKey, ds \in {0, DescSize}, v \in {0, 1}}

InitMap ==
  /\ pc = "map_call"
  /\ trace = <<>>
  /\ memmap \in MapRecords
  /\ memory_buf = <<>>
  /\ report = <<>>
  /\ gop = NoMode
  /\ kern_setup_status = EFI_SUCCESS
  /\ status = EFI_SUCCESS
  /\ kernel_file_size = 0
  /\ kernel_buffer = 0
  /\ kernel_ehdr = [phdr |-> <<>>]
  /\ mem = [a \in Addr |-> Garbage]
  /\ kernel_first_addr = 0
  /\ kernel_last_addr = 0
  /\ num_pages = 0
  /\ config = NoConfig
  /\ system_table = <<>>
  /\ acpi_table = NULL
  /\ entry_addr = 0

\* status = GetMemoryMap(&memmap), lines 33-42
CallGetMemoryMap ==
  /\ pc = "map_call"
  /\ pc' = "map_done"
  /\ \E o \in GetMemoryMap(memmap, memory_buf) :
       /\ memmap' = o.map
       /\ memory_buf' = o.buf
       /\ status' = o.status
       /\ trace' = IF o.called
                   THEN Append(trace, Ev("GetMemoryMap", ~EFI_ERROR(o.status), o.map.map_key))
                   ELSE trace
  /\ UNCHANGED <<report, gop, kern_setup_status,
                 kernel_file_size, kernel_buffer, kernel_ehdr, mem, kernel_first_addr,
                 kernel_last_addr, num_pages, config, system_table, acpi_table, entry_addr>>

SpecMap == InitMap /\ [][CallGetMemoryMap]_vars


\* ================================================================ claims
SetMin(S) == CHOOSE x \in S : \A y \in S : x <= y
SetMax(S) == CHOOSE x \in S : \A y \in S : y <= x
RGB == "PixelRedGreenBlueReserved8BitPerColor"
BGR == "PixelBlueGreenRedReserved8BitPerColor"

\* C1: every ExitBootServices call that succeeds is passed the map key that
\* the most recent GetMemoryMap call left in the snapshot; a second call that
\* succeeds comes after two captures and carries the key of the second one.
C1_AcceptedExitCarriesLatestKey ==
  \A i \in AcceptedExits :
    /\ LastCaptureBefore(i) # 0
    /\ trace[i].key = trace[LastCaptureBefore(i)].key
    /\ ({j \in Exits : j < i} # {} =>
          /\ Cardinality({j \in Captures : j < i}) = 2
          /\ trace[LastCaptureBefore(i)].ok)

\* C1 happens: the first call was rejected, the second accepted, and the two
\* captures gave different keys.
C1_Witness ==
  \E i \in AcceptedExits : \E r \in RejectedExits : \E c \in Captures :
    /\ r < i
    /\ c < r
    /\ trace[c].key # trace[LastCaptureBefore(i)].key
    /\ trace[i].key = trace[LastCaptureBefore(i)].key

\* C2: ExitBootServices is called at most twice and GetMemoryMap at most
\* twice; after two rejections the loader is halted, two captures were made
\* and the kernel was not entered; when the first exit succeeds there is one
\* capture only.
C2_AtMostTwoAttempts ==
  /\ Cardinality(Exits) <= 2
  /\ Cardinality(Captures) <= 2
  /\ (Cardinality(RejectedExits) = 2 =>
        pc = "halt" /\ Entries = {} /\ Cardinality(Captures) = 2)
  /\ (Exits # {} /\ trace[SetMin(Exits)].ok => Cardinality(Captures) = 1)

\* C2 happens: both calls were rejected.
C2_Witness == Cardinality(RejectedExits) = 2 /\ pc = "halt"

\* C3: once an ExitBootServices call has succeeded no firmware service is
\* called again.
C3_NoFirmwareCallAfterExit ==
  \A i \in AcceptedExits : \A j \in DOMAIN trace : i < j => trace[j].op \notin FwOps

\* C4: the kernel entry point is invoked at most once, after the segments
\* were copied and after an ExitBootServices call succeeded, and never once
\* the loader has halted or faulted.
C4_EntryOnceAfterCopyAndExit ==
  /\ Cardinality(Entries) <= 1
  /\ \A e \in Entries :
       /\ \E c \in Events("CopyLoadSegments") : c < e
       /\ \E x \in AcceptedExits : x < e
       /\ \A h \in Events("Halt") \cup Events("Fault") : e < h
  /\ (pc \in {"halt", "fault"} /\ Events("KernelReturn") = {} => Entries = {})

\* C4 happens: the kernel was entered.
C4_Witness == pc = "kernel" /\ Entries # {} /\ Loadable(kernel_ehdr) # {}

\* C5: for an image without a PT_LOAD entry no page reservation is requested,
\* nothing is copied and the kernel is not entered.
C5_NoReservationWithoutLoadable ==
  (Events("Read") # {} /\ Loadable(kernel_ehdr) = {}) =>
     /\ Events("AllocatePages") = {}
     /\ Events("CopyLoadSegments") = {}
     /\ Entries = {}

\* C6, as stated: for an image with a PT_LOAD entry the range has
\* first <= last, first the least p_vaddr and last the greatest
\* p_vaddr + p_memsz of the PT_LOAD entries.
LoadStarts(ehdr) == {ehdr.phdr[i].p_vaddr : i \in Loadable(ehdr)}
LoadEnds(ehdr) ==
  {(ehdr.phdr[i].p_vaddr + ehdr.phdr[i].p_memsz) % Top : i \in Loadable(ehdr)}
RangeOfLoadable ==
  /\ kernel_first_addr = SetMin(LoadStarts(kernel_ehdr))
  /\ kernel_last_addr = SetMax(LoadEnds(kernel_ehdr))
SegmentLoaded(ph) ==
  /\ \A k \in 0..(ph.p_filesz - 1) :
       /\ ph.p_offset + k < FileSize
       /\ ph.p_vaddr + k < Top
       /\ mem[ph.p_vaddr + k] = FileByte(ph.p_offset + k)
  /\ \A a \in (ph.p_vaddr + ph.p_filesz)..(ph.p_vaddr + ph.p_memsz - 1) :
       a < Top /\ mem[a] = 0
Disjoint(a, la, b, lb) == a + la <= b \/ b + lb <= a
WellFormed(ehdr) ==
  \A i \in Loadable(ehdr) :
    LET ph == ehdr.phdr[i] IN
      /\ ph.p_filesz <= ph.p_memsz
      /\ ph.p_vaddr + ph.p_memsz <= Top
      /\ ph.p_offset + ph.p_filesz <= FileSize
      /\ Disjoint(ph.p_vaddr, ph.p_memsz, kernel_buffer, kernel_file_size)
      /\ \A j \in Loadable(ehdr) \ {i} :
           Disjoint(ph.p_vaddr, ph.p_memsz, ehdr.phdr[j].p_vaddr, ehdr.phdr[j].p_memsz)
C8_PixelFormatMapping ==
  config # NoConfig =>
    /\ config.frame_buffer = gop.FrameBufferBase
    /\ config.pixels_per_scan_line = gop.PixelsPerScanLine
    /\ config.horizontal_resolution = gop.HorizontalResolution
    /\ config.vertical_resolution = gop.VerticalResolution
    /\ (gop.PixelFormat = RGB => config.pixel_format = "kPixelRGBResv8BitPerColor")
    /\ (gop.PixelFormat = BGR => config.pixel_format = "kPixelBGRResv8BitPerColor")
    /\ (gop.PixelFormat \in {RGB, BGR} => pc # "halt" \/ Events("KernelReturn") # {})
    /\ (gop.PixelFormat \notin {RGB, BGR} => pc = "halt" /\ Entries = {})

\* C8 happens: the kernel was entered with a BGR frame buffer.
C8_Witness ==
  pc = "kernel" /\ gop.PixelFormat = BGR /\ config.pixel_format = "kPixelBGRResv8BitPerColor"

\* C9: when the kernel returns, the next thing the loader does is halt.
C9_HaltRightAfterReturn ==
  \A i \in Events("KernelReturn") : i < Len(trace) => trace[i + 1].op = "Halt"

\* C10: whenever a capture, the kernel file open, the pool allocation, the
\* file read, the page reservation, the pool free or the second
\* ExitBootServices fails, the loader is halted and the kernel is not entered.
C10_EveryFailureHalts ==
  \A i \in DOMAIN trace :
    (~trace[i].ok /\ ~(i \in Exits /\ \A j \in Exits : i <= j)) =>
       pc = "halt" /\ Entries = {}

\* C11: the frame-buffer data and the configuration tables are read before
\* the ExitBootServices call that succeeds: no read of gop->Mode or of the
\* configuration-table list follows an accepted ExitBootServices.
FirmwareReads == Events("ReadGopMode") \cup Events("ReadConfigTable")
C11_NoFirmwareReadAfterExit ==
  \A x \in AcceptedExits : \A r \in FirmwareReads : r < x

\* C12: GetMemoryMap on a record without a buffer returns
\* EFI_BUFFER_TOO_SMALL, does not call the firmware and leaves the record as
\* it was; on a record with a buffer it calls the firmware once with
\* map_size set to buffer_size and returns the firmware's status, which is
\* success only when the map fits the buffer and EFI_BUFFER_TOO_SMALL with
\* the size needed, above buffer_size, when the buffer is too small.
C12_GetMemoryMapContract ==
  [][(pc = "map_call" /\ pc' = "map_done") =>
       IF memmap.buffer = NULL
       THEN /\ status' = EFI_BUFFER_TOO_SMALL
            /\ memmap' = memmap
            /\ trace' = trace
       ELSE /\ Len(trace') = Len(trace) + 1
            /\ trace'[Len(trace')].op = "GetMemoryMap"
            /\ trace'[Len(trace')].ok = (status' = EFI_SUCCESS)
            /\ memmap'.buffer = memmap.buffer
            /\ memmap'.buffer_size = memmap.buffer_size
            /\ (status' = EFI_INVALID_PARAMETER =>
                  memmap' = [memmap EXCEPT !.map_size = memmap.buffer_size])
            /\ (status' = EFI_SUCCESS =>
                  /\ memmap'.map_size <= memmap.buffer_size
                  /\ memmap'.map_size = Len(memory_buf') * memmap'.descriptor_size)
            /\ (status' = EFI_BUFFER_TOO_SMALL =>
                  memmap'.map_size > memmap.buffer_size)]_vars

\* C12 happens: a record without a buffer, its fields set by an earlier
\* capture, came back from GetMemoryMap with EFI_BUFFER_TOO_SMALL.
C12_Witness ==
  /\ pc = "map_done"
  /\ memmap.buffer = NULL
  /\ status = EFI_BUFFER_TOO_SMALL
  /\ memmap.buffer_size > 0
  /\ memmap.map_size = DescSize
  /\ memmap.map_key = MaxKey
  /\ memmap.descriptor_size = DescSize
  /\ trace = <<>>

\* The number a digit string stands for.
RECURSIVE Value(_, _)
Value(s, base) ==
  IF s = <<>> THEN 0
  ELSE Value(SubSeq(s, 1, Len(s) - 1), base) * base + s[Len(s)]

\* C13: when SaveMemoryMap has returned for a map of N descriptors
\* (map_size = N * descriptor_size, descriptor_size > 0), the report file has
\* received exactly N + 1 writes: the header line, then for i = 0..N-1 a row
\* numbered i whose Type, PhysicalStart and NumberOfPages fields read back to
\* those of descriptor i and whose Attribute field reads back to the low 20
\* bits of its Attribute.
C13_ReportRows ==
  (pc = "closemap" /\ memmap.descriptor_size > 0
     /\ memmap.map_size % memmap.descriptor_size = 0) =>
    LET N == memmap.map_size \div memmap.descriptor_size IN
      /\ Cardinality(Events("Write")) = N + 1
      /\ Len(report) = N + 1
      /\ report[1] = ReportHeader
      /\ \A i \in 1..N :
            /\ Value(report[i + 1][1], 10) = i - 1
            /\ i <= Len(memory_buf) =>
                  /\ Value(report[i + 1][2], 16) = memory_buf[i].Type
                  /\ report[i + 1][3] = GetMemoryTypeUnicode(memory_buf[i].Type)
                  /\ Value(report[i + 1][4], 16) = memory_buf[i].PhysicalStart
                  /\ Len(report[i + 1][4]) >= 8
                  /\ Value(report[i + 1][5], 16) = memory_buf[i].NumberOfPages
                  /\ Value(report[i + 1][6], 16) = memory_buf[i].Attribute % 1048576

\* C13 happens: a map of BufCap descriptors, the last with attribute bits
\* above the mask, has been saved.
C13_Witness ==
  /\ pc = "closemap"
  /\ Len(memory_buf) = BufCap
  /\ memmap.map_size = BufCap * memmap.descriptor_size
  /\ memmap.descriptor_size > 0
  /\ Len(report) = BufCap + 1
  /\ memory_buf[BufCap].Attribute > AttrMask

\* Memory as ReadKernel left it, the cells CopyLoadSegments has changed since,
\* and the range AllocatePages was asked to reserve.
MemAfterRead ==
  [a \in Addr |->
     IF a >= kernel_buffer /\ a < kernel_buffer + kernel_file_size
     THEN FileByte(a - kernel_buffer) ELSE Garbage]
Written == {a \in Addr : mem[a] # MemAfterRead[a]}
Reserved == {a \in Addr : /\ a >= kernel_first_addr
                          /\ a < kernel_first_addr + num_pages * PageSize}

\* C14: every byte CopyLoadSegments has written, copied or zero-filled, lies
\* in [kernel_first_addr, kernel_first_addr + num_pages * 4096), the range
\* reserved by AllocatePages.
C14_WritesInsideReservation ==
  pc \in {"freepool", "fault"} => Written \subseteq Reserved

\* e_entry of the file read into the buffer: the cell of the file at offset
\* ELF_OFFSET_TO_ENTRYPOINT.
e_entry == FileByte(ELF_OFFSET_TO_ENTRYPOINT)

\* C15: the address the loader jumps to is the e_entry of the kernel file.
C15_EntryIsHeaderEntry ==
  Entries # {} => entry_addr = e_entry

\* C16: the snapshot handed to the kernel is the capture whose key the
\* accepted ExitBootServices was passed: that capture succeeded, no other
\* capture follows it, the kernel receives its key, and every AllocatePool,
\* AllocatePages and FreePool call of the loader precedes it, so that none
\* lies between the capture and the accepted ExitBootServices or after it.
Mutators == {i \in DOMAIN trace : trace[i].op \in MutatingOps}
KernelFrees == {i \in Events("FreePool") : trace[i].key \in KernelBufferAddrs}
BufferCells == {a \in Addr : /\ a >= kernel_buffer
                             /\ a < kernel_buffer + kernel_file_size}

\* C17: FreePool is called on the kernel file buffer at most once, after
\* CopyLoadSegments has finished; when ExitBootServices is called the buffer
\* has been freed, exactly once, before the first call; the copy out of the
\* buffer precedes the free, and the entry address is read after it from
\* kernel_first_addr + ELF_OFFSET_TO_ENTRYPOINT, a cell outside the buffer.
C17_BufferFreedOnceNotReadAfter ==
  /\ Cardinality(KernelFrees) <= 1
  /\ \A f \in KernelFrees :
       /\ \E c \in Events("CopyLoadSegments") : c < f
       /\ \A c \in Events("CopyLoadSegments") : c < f
       /\ \A x \in Exits : f < x
       /\ \A r \in Events("ReadEntry") :
            /\ f < r
            /\ trace[r].key = (kernel_first_addr + ELF_OFFSET_TO_ENTRYPOINT) % Top
            /\ trace[r].key \notin BufferCells
  /\ Exits # {} => \E f \in KernelFrees : trace[f].ok
  /\ Events("ReadEntry") # {} => KernelFrees # {}

\* C17 happens: the buffer was freed, ExitBootServices accepted, and the
\* entry address read from the loaded image.
C17_Witness ==
  /\ pc = "kernel"
  /\ \E f \in KernelFrees : \E x \in AcceptedExits : \E r \in Events("ReadEntry") :
       /\ trace[f].ok
       /\ f < x
       /\ x < r
       /\ trace[r].key = kernel_first_addr + ELF_OFFSET_TO_ENTRYPOINT

\* C18: CalcLoadAddressRange has returned before AllocatePages is called;
\* CopyLoadSegments runs, to its end or to a fault, only after an
\* AllocatePages call that succeeded; and as long as no AllocatePages call
\* has succeeded, memory is as the Read of the file left it.
C18_CalcThenReserveThenCopy ==
  /\ \A a \in Events("AllocatePages") :
       \E c \in Events("CalcLoadAddressRange") : c < a
  /\ \A w \in Events("CopyLoadSegments") \cup Events("Fault") :
       \E a \in Events("AllocatePages") : trace[a].ok /\ a < w
  /\ ((\E r \in Events("Read") : trace[r].ok)
        /\ (\A a \in Events("AllocatePages") : ~trace[a].ok))
       => mem = MemAfterRead

\* C18 happens: the three steps ran in order and segment bytes were written.
C18_Witness ==
  \E c \in Events("CalcLoadAddressRange") : \E a \in Events("AllocatePages") :
    \E w \in Events("CopyLoadSegments") :
      /\ c < a
      /\ trace[a].ok
      /\ a < w
      /\ Written # {}

\* The entries of the configuration-table list that carry the ACPI GUID.
AcpiEntries == {i \in DOMAIN system_table : system_table[i].VendorGuid = "acpi"}

\* C19: once the configuration tables have been searched, acpi_table is the
\* VendorTable of the first entry with the ACPI GUID and is NULL exactly when
\* no entry has it; the search is always followed by the jump to the
\* kernel, so that a halt after it comes only from the kernel returning.
C19_FirstAcpiTable ==
  Events("ReadConfigTable") # {} =>
    /\ AcpiEntries # {} => acpi_table = system_table[SetMin(AcpiEntries)].VendorTable
    /\ (acpi_table = NULL) <=> (AcpiEntries = {})
    /\ pc \in {"entry", "kernel", "returned", "halt"}
    /\ pc = "halt" => Events("KernelReturn") # {}

\* C19 happens: the kernel is entered with the table of the first of two
\* ACPI entries, which is not the first entry of the list.
C19_Witness ==
  /\ pc = "kernel"
  /\ Cardinality(AcpiEntries) = 2
  /\ SetMin(AcpiEntries) > 1
  /\ acpi_table = system_table[SetMin(AcpiEntries)].VendorTable

\* C19 happens without a table: the kernel is entered with a NULL pointer.
C19_WitnessMissing ==
  /\ pc = "kernel"
  /\ system_table # <<>>
  /\ AcpiEntries = {}
  /\ acpi_table = NULL

\* C20: UefiMain never returns: an execution that has come to its end, no
\* step of UefiMain being possible any more, is inside Halt; the only other
\* place where control stays is the kernel, after the entry call.
C20_EndsInKernelOrHalt ==
  ~(ENABLED Next) => pc = "halt"

====
